---- MODULE Spec2Model ----
(***************************************************************************)
(* Model of the SAS assistant's interactive session engine                 *)
(* (src/ui/terminal.js, startTerminal), the turn orchestration             *)
(* (src/core/assistant.js, handlePrompt), the completion client            *)
(* (src/services/openaiClient.js, getSasAssistantResponse), the logger     *)
(* (src/unnamed/part_003, initLogFile / logInteraction) and the runtime    *)
(* configuration (src/unnamed/part_002, config).                           *)
(*                                                                         *)
(* Strings the code inspects (input lines, persona names, exit tokens) are *)
(* sequences of one-character strings, so that trim, toLowerCase,          *)
(* startsWith, slice and split are computed as the code computes them.     *)
(***************************************************************************)
EXTENDS Integers, Sequences, FiniteSets, TLC

(***************************************************************************)
(* Bounds of the model                                                     *)
(***************************************************************************)
\* at most this many query turns are dispatched in one session
MaxTurns == 2
\* largest reading of the clock, in milliseconds since the first process
\* started (bounds the model)
MaxClock == 2
\* number of process lifetimes of a behaviour (bounds the model)
MaxRuns == 2

(***************************************************************************)
(* String primitives of JavaScript, on sequences of characters             *)
(***************************************************************************)
UpperChars == <<"A","B","C","D","E","F","G","H","I","J","K","L","M",
                "N","O","P","Q","R","S","T","U","V","W","X","Y","Z">>
LowerChars == <<"a","b","c","d","e","f","g","h","i","j","k","l","m",
                "n","o","p","q","r","s","t","u","v","w","x","y","z">>
DigitChars == <<"0","1","2","3","4","5","6","7","8","9">>
WhiteSpace == {" ", "\t"}

Range(s) == {s[i] : i \in DOMAIN s}

\* the characters the class [a-zA-Z0-9] matches
AlnumChars == Range(UpperChars) \cup Range(LowerChars) \cup Range(DigitChars)

\* the lower-case form of each upper-case letter
LowerOfUpper == [c \in Range(UpperChars) |->
                  LowerChars[CHOOSE i \in DOMAIN UpperChars : UpperChars[i] = c]]

UpperOfLower == [c \in Range(LowerChars) |->
                  UpperChars[CHOOSE i \in DOMAIN LowerChars : LowerChars[i] = c]]

\* String.prototype.toUpperCase
UpperChar(c) == IF c \in DOMAIN UpperOfLower THEN UpperOfLower[c] ELSE c
toUpperCase(s) == [i \in DOMAIN s |-> UpperChar(s[i])]

\* String.prototype.toLowerCase, one character
LowerChar(c) == IF c \in DOMAIN LowerOfUpper THEN LowerOfUpper[c] ELSE c

\* String.prototype.toLowerCase
\* a toLowerCase that leaves upper-case letters as they are
toLowerCase_Identity(s) == s

toLowerCase(s) == [i \in DOMAIN s |-> LowerChar(s[i])]

\* String.prototype.trim: drops leading and trailing white space
trim(s) ==
  LET keep == {i \in DOMAIN s : s[i] \notin WhiteSpace}
  IN  IF keep = {} THEN <<>>
      ELSE LET lo == CHOOSE i \in keep : \A j \in keep : i <= j
               hi == CHOOSE i \in keep : \A j \in keep : j <= i
           IN  SubSeq(s, lo, hi)

\* String.prototype.startsWith
startsWith(s, p) == Len(p) <= Len(s) /\ SubSeq(s, 1, Len(p)) = p

\* String.prototype.slice(1)
slice1(s) == IF s = <<>> THEN <<>> ELSE Tail(s)

\* the regular expression test /[a-zA-Z0-9]/.test(s)
HasAlnum(s) == \E i \in DOMAIN s : s[i] \in AlnumChars

\* the value JavaScript calls undefined
Undefined == <<"undefined">>

\* s.split(' ')[1]: the text between the first and the second space,
\* undefined when s holds no space
splitSecond(s) ==
  LET sp == {i \in DOMAIN s : s[i] = " "}
  IN  IF sp = {} THEN Undefined
      ELSE LET first == CHOOSE i \in sp : \A j \in sp : i <= j
               later == {i \in sp : i > first}
               stop  == IF later = {} THEN Len(s) + 1
                        ELSE CHOOSE i \in later : \A j \in later : i <= j
           IN  SubSeq(s, first + 1, stop - 1)

(***************************************************************************)
(* String literals of the program and of the inputs                        *)
(***************************************************************************)
sas         == <<"s","a","s">>
sql         == <<"s","q","l">>
mentor      == <<"m","e","n","t","o","r">>
debugger    == <<"d","e","b","u","g","g","e","r">>
teacher     == <<"t","e","a","c","h","e","r">>
bob         == <<"b","o","b">>
constructor == <<"c","o","n","s","t","r","u","c","t","o","r">>
toStringKey == <<"t","o","S","t","r","i","n","g">>
valueOfKey  == <<"v","a","l","u","e","O","f">>

slashPersonaSp == <<"/","p","e","r","s","o","n","a"," ">>
slashPersonas  == <<"/","p","e","r","s","o","n","a","s">>
slashHelp      == <<"/","h","e","l","p">>
helpWord       == <<"h","e","l","p">>
questionMark   == <<"?">>
slashMock      == <<"/","m","o","c","k">>
slashMockSp    == <<"/","m","o","c","k"," ">>
onWord         == <<"o","n">>
offWord        == <<"o","f","f">>

exitTok  == <<"e","x","i","t">>
quitTok  == <<"q","u","i","t">>
qTok     == <<"q">>
colonQ   == <<":","q">>
ByeTok   == <<"B","y","e">>
bangTok  == <<"!","!">>

(***************************************************************************)
(* Configuration (config) and the persona registry                         *)
(***************************************************************************)
\* the own keys of the object literal config.personas
PersonaKeys == {sas, sql, mentor, debugger, teacher}

\* names every JavaScript object inherits from Object.prototype
ObjectPrototypeKeys == {constructor, toStringKey, valueOfKey}

\* config.personas[k]: the system prompt of an own key, the inherited
\* member for a name of Object.prototype, undefined otherwise
personasGet(k) ==
  IF k \in PersonaKeys THEN <<"systemPrompt", k>>
  ELSE IF k \in ObjectPrototypeKeys THEN <<"inherited", k>>
  ELSE Undefined

\* personaWelcomeMessages[k], an object literal with the same five keys
welcomeGet(k) ==
  IF k \in PersonaKeys THEN <<"welcome", k>>
  ELSE IF k \in ObjectPrototypeKeys THEN <<"inherited", k>>
  ELSE Undefined

\* JavaScript truthiness of a lookup result
Truthy(v) == v # Undefined

\* (process.env.OPENAI_EXIT_COMMANDS || 'exit,quit,q,:q').split(',')
DefaultExitCommands == <<exitTok, quitTok, qTok, colonQ>>
ExitCommandLists == {DefaultExitCommands, <<ByeTok, bangTok>>}

\* Array.prototype.includes
includes(list, x) == \E i \in DOMAIN list : list[i] = x

\* completion texts the provider may return
Responses == { <<"o","k"," ">> }

(***************************************************************************)
(* Input lines typed at the prompt                                         *)
(***************************************************************************)
\* one line or more for each branch of the 'line' handler
SessionLines == {
  <<>>,                                             \* empty line
  <<" "," ">>,                                      \* blanks only
  <<"?","?","?">>,                                  \* no alphanumeric
  questionMark,                                     \* ?
  <<"/">> \o sql,                                   \* /sql
  <<"/","P","e","r","s","o","n","a"," ","S","A","S">>,  \* /Persona SAS
  slashPersonaSp \o bob,                            \* /persona bob
  slashPersonas,                                    \* /personas
  slashHelp,                                        \* /help
  helpWord,                                         \* help
  slashMock,                                        \* /mock
  slashMockSp \o onWord,                            \* /mock on
  <<"/","M","O","C","K"," ","O","F","F">>,          \* /MOCK OFF
  <<"Q","U","I","T">>,                              \* QUIT
  <<" ","h","i"," ">>                               \* " hi "
}

\* lines that name a persona, and two ordinary lines
PersonaLines == {
  <<"/">> \o sql,                                   \* /sql
  <<"/","S","Q","L">>,                              \* /SQL
  <<"/">> \o bob,                                   \* /bob
  <<"/">> \o constructor,                           \* /constructor
  slashPersonaSp \o sql,                            \* /persona sql
  <<"/","P","e","r","s","o","n","a"," ","S","A","S">>,  \* /Persona SAS
  slashPersonaSp \o bob,                            \* /persona bob
  slashPersonaSp \o constructor,                    \* /persona constructor
  slashPersonaSp \o toStringKey,                    \* /persona toString
  <<"/","p","e","r","s","o","n","a">>,              \* /persona
  slashPersonas,                                    \* /personas
  <<" ","h","i"," ">>                               \* " hi "
}

\* lines typed to leave the session, and two ordinary lines
ExitLines == {
  exitTok,                                          \* exit
  <<"E","x","I","t">>,                              \* ExIt
  <<"Q","U","I","T">>,                              \* QUIT
  qTok,                                             \* q
  <<" ">> \o colonQ,                                \* " :q"
  ByeTok,                                           \* Bye
  <<"b","y","e">>,                                  \* bye
  bangTok,                                          \* !!
  slashHelp,                                        \* /help
  <<" ","h","i"," ">>                               \* " hi "
}

(***************************************************************************)
(* State                                                                   *)
(***************************************************************************)
VARIABLES
  config,        \* the config object; config.mock is mutated at run time
  activePersona, \* let activePersona of startTerminal
  closed,        \* the readline interface has been closed (rl.close())
  crashed,       \* the process has died of an uncaught error
  turns,         \* number of query turns dispatched so far
  inflight,      \* handlePrompt calls awaiting the gateway, oldest first
  pending,       \* prompts issued and not yet answered by a line
  last,          \* what the most recent handler run did
  initialized,   \* let initialized of the logger
  logPath,       \* let logPath of the logger
  timestamp,     \* const timestamp of the initLogFile run that resolved
  dirExists,     \* the log directory exists on disk
  files,         \* the log files on disk: whether each exists, and its lines
  now,           \* the reading of the system clock (new Date()), in
                 \* milliseconds; nothing makes it advance between two reads
  env,           \* the config object as the environment builds it at start
  earlierRuns,   \* the log files resolved by the earlier process lifetimes
  entries,       \* what lies in the log directory, as clean-logs.ps1 reads
                 \* it: names, kinds and last-write times
  envFile,       \* the retention settings of the .env file beside the script
  lastPrune,     \* what the most recent run of clean-logs.ps1 did
  script         \* the lines of a prepared input sequence not yet read

vars == <<config, activePersona, closed, crashed, turns, inflight, pending,
          last, initialized, logPath, timestamp, dirExists, files,
          now, env, earlierRuns, entries, envFile, lastPrune, script>>

loggerVars  == <<initialized, logPath, timestamp, dirExists, files>>
envVars     == <<now, env, earlierRuns>>
prunerVars  == <<entries, envFile, lastPrune>>
sessionVars == <<config, activePersona, closed, crashed, turns, inflight,
                 pending, last>>

NoTurn == [input |-> <<>>, persona |-> <<>>, system |-> Undefined]
\* nothing rendered
NoHeading == <<>>
NoFile == [exists |-> FALSE, content |-> <<>>]
\* a file holding the given lines
FileOf(lines) == [exists |-> TRUE, content |-> lines]

\* let logPath = '' and the timestamp of a logger that has not resolved
NoPath == <<>>
NoTimestamp == -1
\* new Date().toISOString().replace(/[:.]/g, '-'): the text names the clock
\* reading to the millisecond, and is written here as that reading
Timestamp(t) == t
\* path.join(logDir, config.logging.filename)
FixedLogPath == <<"logs", "session.log">>
\* a rotate path whose timestamp is cut to a coarser unit of time
RotateLogPath_Coarse(ts) == <<"logs", "session_", ts \div 2, ".log">>
\* path.join(logDir, `session_${timestamp}.log`)
RotateLogPath(ts) == <<"logs", "session_", ts, ".log">>
LogPaths == {FixedLogPath} \cup {RotateLogPath(Timestamp(t)) : t \in 0..MaxClock}

\* a block with the response before the input
Block_ResponseFirst(persona, input, response) ==
  << <<"divider">>, <<"Persona", persona>>, <<"Time">>,
     <<"Assistant", trim(response)>>, <<"User", trim(input)>>,
     <<"divider">> >>
\* the block logInteraction formats, line by line: dividers, persona, time,
\* trimmed input, trimmed response (the time of day is not spelled out)
Block(persona, input, response) ==
  << <<"divider">>, <<"Persona", persona>>, <<"Time">>,
     <<"User", trim(input)>>, <<"Assistant", trim(response)>>,
     <<"divider">> >>

\* an entry written by an earlier process
OldEntry == Block(sas, <<"o","l","d">>, <<"o","l","d">>)

\* number of prompts a handler run wrote
PromptsIn(out) == Cardinality({i \in DOMAIN out : out[i] = "prompt"})

(***************************************************************************)
(* Start of the process: module initialisation and startTerminal           *)
(***************************************************************************)
\* the config object when no environment variable is set: defaultPersona
\* 'sas', exitCommands exit,quit,q,:q, mock off, logging on, mode 'rotate'
DefaultConfig ==
  [defaultPersona |-> sas, exitCommands |-> DefaultExitCommands,
   mock |-> FALSE, loggingEnabled |-> TRUE, loggingMode |-> "rotate"]

\* configurations of the session specification: the default one, and one
\* with OPENAI_PERSONA=bob and LOGGING_MODE=overwrite
SessionConfigs ==
  { DefaultConfig,
    [DefaultConfig EXCEPT !.defaultPersona = bob, !.loggingMode = "overwrite"] }

\* configurations of the exit specification: the default exit tokens, and
\* OPENAI_EXIT_COMMANDS=Bye,!!
ExitConfigs ==
  { [DefaultConfig EXCEPT !.exitCommands = e, !.loggingEnabled = FALSE]
      : e \in ExitCommandLists }

\* no .env file beside the script
NoEnvFile == [exists |-> FALSE, minutes |-> "", days |-> ""]
\* clean-logs.ps1 has not run
NoPrune ==
  [outcome |-> "none", exit |-> 0, minutes |-> <<>>, days |-> <<>>,
   at |-> 0, threshold |-> <<>>, display |-> "", selected |-> {},
   failed |-> {}, count |-> 0, after |-> {}]

\* the session, the logger and the disk at the start of the process
SessionStart(configs, disks) ==
  /\ config \in configs
  /\ activePersona = config.defaultPersona
  /\ closed = FALSE
  /\ crashed = FALSE
  /\ turns = 0
  /\ inflight = <<>>
  /\ pending = 1
  /\ last = [kind |-> "start", line |-> <<>>, branch |-> "start",
             out |-> <<"prompt">>, turn |-> NoTurn,
             heading |-> NoHeading]
  /\ initialized = FALSE
  /\ logPath = NoPath
  /\ timestamp = NoTimestamp
  /\ \E disk \in disks :
        /\ dirExists = (disk # "no directory")
        /\ files = [p \in LogPaths |->
                      IF p = FixedLogPath /\ disk = "earlier log"
                      THEN FileOf(OldEntry) ELSE NoFile]
  /\ now = 0
  /\ env = config
  /\ earlierRuns = <<>>

\* a process started where clean-logs.ps1 plays no part
StartWith(configs, disks) ==
  /\ SessionStart(configs, disks)
  /\ script = <<>>
  /\ entries = {}
  /\ envFile = NoEnvFile
  /\ lastPrune = NoPrune

(***************************************************************************)
(* getSasAssistantResponse: the request built for a prompt and a persona   *)
(***************************************************************************)
\* a getSasAssistantResponse that sends the number of earlier turns along
\* with the system prompt
getSasAssistantResponse_WithHistory(promptText, persona) ==
  LET own == personasGet(persona)
      systemMessage == IF Truthy(own) THEN own
                       ELSE personasGet(config.defaultPersona)
  IN  [input |-> promptText, persona |-> persona,
       system |-> <<systemMessage, turns>>]

getSasAssistantResponse(promptText, persona) ==
  LET own == personasGet(persona)
      systemMessage == IF Truthy(own) THEN own
                       ELSE personasGet(config.defaultPersona)
  IN  [input |-> promptText, persona |-> persona, system |-> systemMessage]

\* the messages array of the request of a turn
Messages(turn) ==
  << [role |-> "system", content |-> turn.system],
     [role |-> "user", content |-> turn.input] >>

(***************************************************************************)
(* The 'line' handler of startTerminal, up to its first suspension         *)
(***************************************************************************)
Stay(branch, out) ==
  [branch |-> branch, persona |-> activePersona, mock |-> config.mock,
   out |-> out, close |-> FALSE, query |-> FALSE, turn |-> NoTurn]

SwitchTo(branch, selected) ==
  [Stay(branch,
        <<"switched">>
        \o (IF Truthy(welcomeGet(selected)) THEN <<"welcome">> ELSE <<>>)
        \o <<"prompt">>)
   EXCEPT !.persona = selected]

Handle(input) ==
  LET command == trim(input)
      lower   == toLowerCase(command)
  IN
  IF command = <<>> THEN Stay("empty", <<"usageHint", "prompt">>)
  ELSE IF ~HasAlnum(command) THEN Stay("invalid", <<"invalidHint", "prompt">>)
  ELSE IF startsWith(command, <<"/">>) /\ Truthy(personasGet(slice1(command)))
    THEN SwitchTo("shorthand", slice1(command))
  ELSE IF startsWith(lower, slashPersonaSp)
    THEN LET selected == splitSecond(lower)
         IN  IF Truthy(personasGet(selected))
             THEN SwitchTo("persona", selected)
             ELSE Stay("persona", <<"unknownPersona", "prompt">>)
  ELSE IF command = slashPersonas THEN Stay("personas", <<"personasList", "prompt">>)
  ELSE IF command \in {slashHelp, helpWord, questionMark}
    THEN Stay("help", <<"help", "prompt">>)
  ELSE IF lower = slashMock \/ startsWith(lower, slashMockSp)
    THEN LET arg == splitSecond(lower)
         IN  IF arg = onWord
             THEN [Stay("mock", <<"mockOn", "prompt">>) EXCEPT !.mock = TRUE]
             ELSE IF arg = offWord
             THEN [Stay("mock", <<"mockOff", "prompt">>) EXCEPT !.mock = FALSE]
             ELSE Stay("mock", <<"mockStatus", "prompt">>)
  ELSE IF includes(config.exitCommands, lower)
    THEN [Stay("exit", <<"farewell">>) EXCEPT !.close = TRUE]
  ELSE [Stay("query", <<>>) EXCEPT
          !.query = TRUE,
          !.turn = getSasAssistantResponse(input, activePersona)]

\* rl.on('line', ...): a line arrives while the interface is open.  The
\* listener is async and readline awaits no listener, so a line is accepted
\* whether or not earlier turns still await the gateway.  A query runs
\* handlePrompt and getSasAssistantResponse up to the await of the request.
\* setPrompt() only rebuilds the prompt text from activePersona.
\* (turns < MaxTurns bounds the model.)
Dispatch(input) ==
  /\ ~closed /\ ~crashed
  /\ LET r == Handle(input)
     IN  /\ r.query => turns < MaxTurns
         /\ activePersona' = r.persona
         /\ config' = [config EXCEPT !.mock = r.mock]
         /\ closed' = r.close
         /\ turns' = IF r.query THEN turns + 1 ELSE turns
         /\ inflight' = IF r.query THEN Append(inflight, r.turn) ELSE inflight
         /\ pending' = (IF pending > 0 THEN pending - 1 ELSE 0) + PromptsIn(r.out)
         /\ last' = [kind |-> "line", line |-> input, branch |-> r.branch,
                     out |-> r.out, turn |-> r.turn,
                     heading |-> NoHeading]
  /\ UNCHANGED <<crashed, loggerVars, envVars, prunerVars>>

\* a line typed at the prompt
Line(input) == Dispatch(input) /\ UNCHANGED script

\* the next line of a prepared input sequence arrives
ScriptLine ==
  /\ script # <<>>
  /\ Dispatch(Head(script))
  /\ script' = Tail(script)

\* an interrupt handler that forgets to close the interface
SIGINT_NoClose ==
  /\ ~closed /\ ~crashed
  /\ last' = [kind |-> "sigint", line |-> <<>>, branch |-> "sigint",
              out |-> <<"farewell">>, turn |-> NoTurn,
             heading |-> NoHeading]
  /\ UNCHANGED <<config, activePersona, closed, crashed, turns, inflight,
                 pending, loggerVars, envVars, prunerVars, script>>

\* rl.on('SIGINT', ...): the interrupt handler
SIGINT ==
  /\ ~closed /\ ~crashed
  /\ closed' = TRUE
  /\ last' = [kind |-> "sigint", line |-> <<>>, branch |-> "sigint",
              out |-> <<"farewell">>, turn |-> NoTurn,
             heading |-> NoHeading]
  /\ UNCHANGED <<config, activePersona, crashed, turns, inflight, pending,
                 loggerVars, envVars, prunerVars, script>>

(***************************************************************************)
(* Logger: initLogFile and logInteraction                                  *)
(*                                                                         *)
(* fs says which of the file-system calls succeed in this run              *)
(* (mkdirSync, writeFileSync, appendFileSync).  A result is the logger's   *)
(* state after the call, whether the call threw, and what it did: "mkdir"  *)
(* and "truncate" for a call of mkdirSync and of writeFileSync, "append"   *)
(* for an entry written, "loggerError" for the report of a failed append.  *)
(***************************************************************************)
FsOutcomes == [mkdir : BOOLEAN, trunc : BOOLEAN, append : BOOLEAN]

LoggerState ==
  [initialized |-> initialized, logPath |-> logPath, timestamp |-> timestamp,
   dirExists |-> dirExists, files |-> files, threw |-> FALSE, out |-> <<>>]

\* an initLogFile that never sets initialized
initLogFile_NeverInitialized(st, fs) ==
  IF ~config.loggingEnabled \/ st.initialized THEN st
  ELSE IF ~st.dirExists /\ ~fs.mkdir
  THEN [st EXCEPT !.threw = TRUE, !.out = <<"mkdir">>]
  ELSE
    LET d == [st EXCEPT !.dirExists = TRUE,
                        !.out = IF st.dirExists THEN <<>> ELSE <<"mkdir">>,
                        !.timestamp = Timestamp(now)]
    IN  IF config.loggingMode = "rotate"
        THEN [d EXCEPT !.logPath = RotateLogPath(d.timestamp)]
        ELSE IF config.loggingMode = "overwrite"
        THEN IF fs.trunc
             THEN [d EXCEPT !.logPath = FixedLogPath,
                            !.files[FixedLogPath] = FileOf(<<>>),
                            !.out = @ \o <<"truncate">>]
             ELSE [d EXCEPT !.logPath = FixedLogPath, !.threw = TRUE,
                            !.out = @ \o <<"truncate">>]
        ELSE [d EXCEPT !.logPath = FixedLogPath]

\* an initLogFile whose overwrite mode does not truncate the file
initLogFile_NoTruncate(st, fs) ==
  IF ~config.loggingEnabled \/ st.initialized THEN st
  ELSE IF ~st.dirExists /\ ~fs.mkdir
  THEN [st EXCEPT !.threw = TRUE, !.out = <<"mkdir">>]
  ELSE
    LET d == [st EXCEPT !.dirExists = TRUE,
                        !.out = IF st.dirExists THEN <<>> ELSE <<"mkdir">>,
                        !.timestamp = Timestamp(now)]
    IN  IF config.loggingMode = "rotate"
        THEN [d EXCEPT !.logPath = RotateLogPath(d.timestamp),
                       !.initialized = TRUE]
        ELSE [d EXCEPT !.logPath = FixedLogPath, !.initialized = TRUE]

\* an initLogFile whose default case is that of rotate
initLogFile_DefaultRotate(st, fs) ==
  IF ~config.loggingEnabled \/ st.initialized THEN st
  ELSE IF ~st.dirExists /\ ~fs.mkdir
  THEN [st EXCEPT !.threw = TRUE, !.out = <<"mkdir">>]
  ELSE
    LET d == [st EXCEPT !.dirExists = TRUE,
                        !.out = IF st.dirExists THEN <<>> ELSE <<"mkdir">>,
                        !.timestamp = Timestamp(now)]
    IN  IF config.loggingMode = "append"
        THEN [d EXCEPT !.logPath = FixedLogPath, !.initialized = TRUE]
        ELSE IF config.loggingMode = "overwrite"
        THEN IF fs.trunc
             THEN [d EXCEPT !.logPath = FixedLogPath,
                            !.files[FixedLogPath] = FileOf(<<>>),
                            !.out = @ \o <<"truncate">>,
                            !.initialized = TRUE]
             ELSE [d EXCEPT !.logPath = FixedLogPath, !.threw = TRUE,
                            !.out = @ \o <<"truncate">>]
        ELSE [d EXCEPT !.logPath = RotateLogPath(d.timestamp),
                       !.initialized = TRUE]

initLogFile(st, fs) ==
  IF ~config.loggingEnabled \/ st.initialized THEN st
  ELSE IF ~st.dirExists /\ ~fs.mkdir
  THEN [st EXCEPT !.threw = TRUE, !.out = <<"mkdir">>]
  ELSE
    LET d == [st EXCEPT !.dirExists = TRUE,
                        !.out = IF st.dirExists THEN <<>> ELSE <<"mkdir">>,
                        !.timestamp = Timestamp(now)]
    IN  IF config.loggingMode = "rotate"
        THEN [d EXCEPT !.logPath = RotateLogPath(d.timestamp),
                       !.initialized = TRUE]
        ELSE IF config.loggingMode = "overwrite"
        THEN IF fs.trunc
             THEN [d EXCEPT !.logPath = FixedLogPath,
                            !.files[FixedLogPath] = FileOf(<<>>),
                            !.out = @ \o <<"truncate">>,
                            !.initialized = TRUE]
             ELSE [d EXCEPT !.logPath = FixedLogPath, !.threw = TRUE,
                            !.out = @ \o <<"truncate">>]
        ELSE [d EXCEPT !.logPath = FixedLogPath, !.initialized = TRUE]

\* the entry of a turn: the persona, the input and the response of the turn
Entry(turn, response) == Block(turn.persona, turn.input, response)

\* a logInteraction that does not look at config.logging.enabled: with
\* logging disabled initLogFile resolves nothing, and the append to the path
\* '' fails
logInteraction_NoEnabledCheck(st, turn, response, fs) ==
  LET i == IF ~st.initialized THEN initLogFile(st, fs) ELSE st
  IN  IF i.threw THEN i
      ELSE IF fs.append /\ i.logPath # NoPath
      THEN [i EXCEPT !.files[i.logPath] =
               FileOf(@.content \o Entry(turn, response)),
             !.out = @ \o <<"append">>]
      ELSE [i EXCEPT !.out = @ \o <<"loggerError">>]

\* a logInteraction that lets a failed append escape
logInteraction_NoCatch(st, turn, response, fs) ==
  IF ~config.loggingEnabled THEN st
  ELSE
    LET i == IF ~st.initialized THEN initLogFile(st, fs) ELSE st
    IN  IF i.threw THEN i
        ELSE IF fs.append
        THEN [i EXCEPT !.files[i.logPath] =
                 FileOf(@.content \o Entry(turn, response)),
               !.out = @ \o <<"append">>]
        ELSE [i EXCEPT !.threw = TRUE]

\* a logInteraction that writes the file anew instead of appending to it
logInteraction_WriteFile(st, turn, response, fs) ==
  IF ~config.loggingEnabled THEN st
  ELSE
    LET i == IF ~st.initialized THEN initLogFile(st, fs) ELSE st
    IN  IF i.threw THEN i
        ELSE IF fs.append
        THEN [i EXCEPT !.files[i.logPath] = FileOf(Entry(turn, response)),
                       !.out = @ \o <<"append">>]
        ELSE [i EXCEPT !.out = @ \o <<"loggerError">>]

\* a logInteraction that resolves the log file again when the file it
\* resolved is no longer there
logInteraction_ReResolve(st, turn, response, fs) ==
  IF ~config.loggingEnabled THEN st
  ELSE
    LET gone == st.initialized /\ ~st.files[st.logPath].exists
        i == IF ~st.initialized \/ gone
             THEN initLogFile([st EXCEPT !.initialized = FALSE], fs) ELSE st
    IN  IF i.threw THEN i
        ELSE IF fs.append
        THEN [i EXCEPT !.files[i.logPath] =
                 FileOf(@.content \o Entry(turn, response)),
               !.out = @ \o <<"append">>]
        ELSE [i EXCEPT !.out = @ \o <<"loggerError">>]

logInteraction(st, turn, response, fs) ==
  IF ~config.loggingEnabled THEN st
  ELSE
    LET i == IF ~st.initialized THEN initLogFile(st, fs) ELSE st
    IN  IF i.threw THEN i
        ELSE IF fs.append
        THEN [i EXCEPT !.files[i.logPath] =
                 FileOf(@.content \o Entry(turn, response)),
               !.out = @ \o <<"append">>]
        ELSE [i EXCEPT !.out = @ \o <<"loggerError">>]

(***************************************************************************)
(* handlePrompt after the gateway has answered, and the rest of the        *)
(* 'line' handler (rl.prompt())                                            *)
(***************************************************************************)
RemoveAt(q, i) == SubSeq(q, 1, i - 1) \o SubSeq(q, i + 1, Len(q))

\* formatResponse: the heading it prints above the response,
\* persona?.toUpperCase() || 'ASSISTANT'
formatResponse(content, persona) ==
  IF persona = <<>> THEN <<"A","S","S","I","S","T","A","N","T">>
  ELSE toUpperCase(persona)

\* a handlePrompt that renders and records under the persona active when
\* the gateway answers
GatewayOk_CurrentPersona(i, response, fs) ==
  /\ ~crashed
  /\ i \in DOMAIN inflight
  /\ LET turn == [inflight[i] EXCEPT !.persona = activePersona]
         lg   == logInteraction(LoggerState, turn, response, fs)
         out  == <<"render">> \o lg.out
                 \o (IF lg.threw THEN <<"uncaught">> ELSE <<"prompt">>)
     IN  /\ initialized' = lg.initialized
         /\ logPath' = lg.logPath
         /\ timestamp' = lg.timestamp
         /\ dirExists' = lg.dirExists
         /\ files' = lg.files
         /\ crashed' = lg.threw
         /\ pending' = pending + PromptsIn(out)
         /\ last' = [kind |-> "done", line |-> turn.input, branch |-> "query",
                     out |-> out, turn |-> inflight[i],
                     heading |-> formatResponse(response, turn.persona)]
  /\ inflight' = RemoveAt(inflight, i)
  /\ UNCHANGED <<config, activePersona, closed, turns, envVars, prunerVars, script>>

\* a handlePrompt whose record is that of the oldest turn in flight
GatewayOk_LogOldest(i, response, fs) ==
  /\ ~crashed
  /\ i \in DOMAIN inflight
  /\ LET turn == inflight[i]
         lg   == logInteraction(LoggerState, inflight[1], response, fs)
         out  == <<"render">> \o lg.out
                 \o (IF lg.threw THEN <<"uncaught">> ELSE <<"prompt">>)
     IN  /\ initialized' = lg.initialized
         /\ logPath' = lg.logPath
         /\ timestamp' = lg.timestamp
         /\ dirExists' = lg.dirExists
         /\ files' = lg.files
         /\ crashed' = lg.threw
         /\ pending' = pending + PromptsIn(out)
         /\ last' = [kind |-> "done", line |-> turn.input, branch |-> "query",
                     out |-> out, turn |-> turn,
                     heading |-> formatResponse(response, turn.persona)]
  /\ inflight' = RemoveAt(inflight, i)
  /\ UNCHANGED <<config, activePersona, closed, turns, envVars, prunerVars, script>>

\* a handlePrompt that records the exchange before it renders the response
GatewayOk_LogFirst(i, response, fs) ==
  /\ ~crashed
  /\ i \in DOMAIN inflight
  /\ LET turn == inflight[i]
         lg   == logInteraction(LoggerState, turn, response, fs)
         out  == lg.out \o <<"render">>
                 \o (IF lg.threw THEN <<"uncaught">> ELSE <<"prompt">>)
     IN  /\ initialized' = lg.initialized
         /\ logPath' = lg.logPath
         /\ timestamp' = lg.timestamp
         /\ dirExists' = lg.dirExists
         /\ files' = lg.files
         /\ crashed' = lg.threw
         /\ pending' = pending + PromptsIn(out)
         /\ last' = [kind |-> "done", line |-> turn.input, branch |-> "query",
                     out |-> out, turn |-> turn,
                     heading |-> formatResponse(response, turn.persona)]
  /\ inflight' = RemoveAt(inflight, i)
  /\ UNCHANGED <<config, activePersona, closed, turns, envVars, prunerVars, script>>

\* the gateway call of turn i resolves with a completion text: formatResponse
\* renders it, logInteraction records it, and the handler calls rl.prompt(),
\* whatever the state of the interface.  An exception of initLogFile is
\* caught by nobody: handlePrompt rejects and the process dies.
GatewayOk(i, response, fs) ==
  /\ ~crashed
  /\ i \in DOMAIN inflight
  /\ LET turn == inflight[i]
         lg   == logInteraction(LoggerState, turn, response, fs)
         out  == <<"render">> \o lg.out
                 \o (IF lg.threw THEN <<"uncaught">> ELSE <<"prompt">>)
     IN  /\ initialized' = lg.initialized
         /\ logPath' = lg.logPath
         /\ timestamp' = lg.timestamp
         /\ dirExists' = lg.dirExists
         /\ files' = lg.files
         /\ crashed' = lg.threw
         /\ pending' = pending + PromptsIn(out)
         /\ last' = [kind |-> "done", line |-> turn.input, branch |-> "query",
                     out |-> out, turn |-> turn,
                     heading |-> formatResponse(response, turn.persona)]
  /\ inflight' = RemoveAt(inflight, i)
  /\ UNCHANGED <<config, activePersona, closed, turns, envVars, prunerVars, script>>

\* the gateway call of turn i rejects: handlePrompt rejects, the handler's
\* promise rejects with nobody awaiting it, and the process dies
GatewayFail(i) ==
  /\ ~crashed
  /\ i \in DOMAIN inflight
  /\ crashed' = TRUE
  /\ last' = [kind |-> "failed", line |-> inflight[i].input, branch |-> "query",
              out |-> <<"uncaught">>, turn |-> inflight[i],
              heading |-> NoHeading]
  /\ inflight' = RemoveAt(inflight, i)
  /\ UNCHANGED <<config, activePersona, closed, turns, pending, loggerVars,
                 envVars, prunerVars, script>>

\* the events of a session whose user types lines of the given set
NextOver(lines) ==
  \/ \E input \in lines : Line(input)
  \/ SIGINT
  \/ \E i \in 1..MaxTurns, response \in Responses, fs \in FsOutcomes :
        GatewayOk(i, response, fs)
  \/ \E i \in 1..MaxTurns : GatewayFail(i)

\* the session engine, a line for each branch of the handler
Init == StartWith(SessionConfigs, {"no directory", "earlier log"})
Next == NextOver(SessionLines)
Spec == Init /\ [][Next]_vars

\* the persona commands
InitPersona == StartWith({[DefaultConfig EXCEPT !.loggingEnabled = FALSE]},
                         {"empty directory"})
NextPersona == NextOver(PersonaLines)
SpecPersona == InitPersona /\ [][NextPersona]_vars

\* the exit tokens
InitExit == StartWith(ExitConfigs, {"empty directory"})
NextExit == NextOver(ExitLines)
SpecExit == InitExit /\ [][NextExit]_vars

(***************************************************************************)
(* The clock, and the lifetimes of the process                             *)
(***************************************************************************)
\* a millisecond passes
Tick ==
  /\ now < MaxClock
  /\ now' = now + 1
  /\ UNCHANGED <<config, activePersona, closed, crashed, turns, inflight,
                 pending, last, loggerVars, env, earlierRuns, prunerVars, script>>

\* the process is over (it died, or its interface is closed and no call is
\* outstanding) and the program is started again in the same environment:
\* the module state is built anew, the disk is what the last process left
Restart ==
  /\ crashed \/ (closed /\ inflight = <<>>)
  /\ Len(earlierRuns) + 1 < MaxRuns
  /\ earlierRuns' = Append(earlierRuns,
                           [initialized |-> initialized, logPath |-> logPath,
                            timestamp |-> timestamp])
  /\ config' = env
  /\ activePersona' = env.defaultPersona
  /\ closed' = FALSE
  /\ crashed' = FALSE
  /\ turns' = 0
  /\ inflight' = <<>>
  /\ pending' = 1
  /\ last' = [kind |-> "start", line |-> <<>>, branch |-> "start",
              out |-> <<"prompt">>, turn |-> NoTurn,
             heading |-> NoHeading]
  /\ initialized' = FALSE
  /\ logPath' = NoPath
  /\ timestamp' = NoTimestamp
  /\ UNCHANGED <<dirExists, files, now, env, prunerVars, script>>

\* the mock commands
mockOnUpper == <<"/","M","o","c","k"," ","O","N">>
mockOffUpper == <<"/","M","O","C","K"," ","O","F","F">>
mockUpper == <<"/","M","O","C","K">>
hiLine == <<" ","h","i"," ">>
MockLines ==
  { slashMock, mockUpper, slashMockSp \o onWord, mockOnUpper,
    slashMockSp \o offWord, mockOffUpper, hiLine }
MockConfigs ==
  { [DefaultConfig EXCEPT !.mock = m, !.loggingEnabled = FALSE]
      : m \in BOOLEAN }
InitMock == StartWith(MockConfigs, {"empty directory"})
NextMock == NextOver(MockLines)
SpecMock == InitMock /\ [][NextMock]_vars

\* the logger: every logging mode (LOGGING_MODE=daily is no mode the logger
\* knows) under the default persona, append mode under OPENAI_PERSONA=sql
\* too, LOGGING_ENABLED=false, a disk with no log directory and one with an earlier log, a query,
\* the clock and the restarts of the program
LoggingModes == {"rotate", "overwrite", "append", "daily"}
LogConfigs ==
  { [DefaultConfig EXCEPT !.loggingMode = m] : m \in LoggingModes }
    \cup { [DefaultConfig EXCEPT !.loggingMode = "append",
                                 !.defaultPersona = sql],
           [DefaultConfig EXCEPT !.loggingEnabled = FALSE] }
LogLines == { hiLine }
InitLog == StartWith(LogConfigs, {"no directory", "earlier log"})
NextLog ==
  \/ NextOver(LogLines)
  \/ Tick
  \/ Restart
SpecLog == InitLog /\ [][NextLog]_vars

(***************************************************************************)
(* clean-logs.ps1: the retention pruner                                    *)
(*                                                                         *)
(* Times are readings of the clock in milliseconds; a last-write time      *)
(* before the start of the behaviour is negative.                          *)
(***************************************************************************)
Minute == 60000
Day == 1440 * Minute
\* $threshold = $now.AddDays(-7)
DefaultRetentionDays == 7

\* -retentionMinutes and -retentionDays: not passed, 0, a positive number
MinutesArgs == {<<>>, <<0>>, <<90>>}
DaysArgs == {<<>>, <<0>>, <<3>>}
\* [int]$retentionDays, [int]$retentionMinutes: a parameter not passed is 0
IntParam(arg) == IF arg = <<>> THEN 0 ELSE arg[1]

\* [int]$env:LOG_RETENTION_MINUTES, [int]$env:LOG_RETENTION_DAYS: the number
\* a text of the .env file denotes
IntOf(text) == CASE text = "0" -> 0 [] text = "3" -> 3 [] text = "90" -> 90

\* the .env files: none, or one that sets each of LOG_RETENTION_MINUTES and
\* LOG_RETENTION_DAYS to 0, to a positive number, or not at all ("")
EnvFiles ==
  {NoEnvFile} \cup [exists : {TRUE}, minutes : {"", "0", "90"},
                    days : {"", "0", "3"}]

\* if ($env:LOG_RETENTION_MINUTES): a text is true unless it is empty
IsSet(text) == text # ""

\* Step 1: the retention values the script works with
LoadRetention(minutesArg, daysArg) ==
  LET cli == [minutes |-> IntParam(minutesArg), days |-> IntParam(daysArg)]
  IN  IF cli.days = 0 /\ cli.minutes = 0 /\ envFile.exists
      THEN IF IsSet(envFile.minutes)
           THEN [cli EXCEPT !.minutes = IntOf(envFile.minutes)]
           ELSE IF IsSet(envFile.days)
           THEN [cli EXCEPT !.days = IntOf(envFile.days)]
           ELSE cli
      ELSE cli

\* Step 2: $threshold and $retentionDisplay
Threshold(retention, t) ==
  IF retention.minutes > 0 THEN t - retention.minutes * Minute
  ELSE IF retention.days > 0 THEN t - retention.days * Day
  ELSE t - DefaultRetentionDays * Day

RetentionDisplay(retention) ==
  IF retention.minutes > 0 THEN "minutes"
  ELSE IF retention.days > 0 THEN "days"
  ELSE "7 days (default)"

\* what may lie in the log directory
LogFile(name, mtime) ==
  [name |-> name, kind |-> "file", dir |-> "logs", ext |-> "log",
   mtime |-> mtime]
ActiveLog == "session.log"
Catalogue ==
  { LogFile(ActiveLog, -1),
    LogFile("session_old.log", -(8 * Day)),
    LogFile("session_edge.log", -(3 * Day)),
    LogFile("session_mid.log", -(120 * Minute)),
    [name |-> "notes.txt", kind |-> "file", dir |-> "logs", ext |-> "txt",
     mtime |-> -(8 * Day)],
    [name |-> "backup.log", kind |-> "directory", dir |-> "logs",
     ext |-> "log", mtime |-> -(8 * Day)],
    [name |-> "session_old.log", kind |-> "file", dir |-> "logs/backup.log",
     ext |-> "log", mtime |-> -(8 * Day)] }

\* a selection of the files written after the threshold
Selected_Newer(dir, threshold) ==
  {e \in dir : /\ e.dir = "logs"
               /\ e.kind = "file"
               /\ e.ext = "log"
               /\ e.mtime > threshold}

\* a selection that takes the file written at the threshold too (-le)
Selected_AtOrBefore(dir, threshold) ==
  {e \in dir : /\ e.dir = "logs"
               /\ e.kind = "file"
               /\ e.ext = "log"
               /\ e.mtime <= threshold}

\* Get-ChildItem -Path $logDir -File -Filter *.log |
\*   Where-Object { $_.LastWriteTime -lt $threshold }
Selected(dir, threshold) ==
  {e \in dir : /\ e.dir = "logs"
               /\ e.kind = "file"
               /\ e.ext = "log"
               /\ e.mtime < threshold}

\* the names of the files Remove-Item may fail to delete
Undeletable == SUBSET {"session_old.log", "session_edge.log"}

\* a run that stops at the first file Remove-Item cannot delete (that file
\* being the first selected)
Prune_StopOnError(minutesArg, daysArg, failing) ==
  LET retention == LoadRetention(minutesArg, daysArg)
      threshold == Threshold(retention, now)
      selected  == Selected(entries, threshold)
      failed    == {e \in selected : e.name \in failing}
      deleted   == IF failed = {} THEN Cardinality(selected) ELSE 0
      run       == [NoPrune EXCEPT !.minutes = minutesArg, !.days = daysArg,
                                   !.at = now]
  IN  /\ IF ~dirExists
         THEN /\ entries' = entries
              /\ lastPrune' = [run EXCEPT !.outcome = "directoryNotFound",
                                          !.exit = 1, !.after = entries]
         ELSE /\ entries' = (IF failed = {} THEN entries \ selected ELSE entries)
              /\ lastPrune' =
                   [run EXCEPT
                      !.outcome = IF failed # {} THEN "stopped"
                                  ELSE IF deleted = 0 THEN "noneEligible"
                                  ELSE "deleted",
                      !.threshold = <<threshold>>,
                      !.display = RetentionDisplay(retention),
                      !.selected = selected,
                      !.failed = failed,
                      !.count = deleted,
                      !.after = (IF failed = {} THEN entries \ selected ELSE entries)]
     /\ UNCHANGED <<sessionVars, loggerVars, envVars, envFile, script>>

\* a run that only lists what it would delete (Remove-Item -WhatIf)
Prune_WhatIf(minutesArg, daysArg, failing) ==
  LET retention == LoadRetention(minutesArg, daysArg)
      threshold == Threshold(retention, now)
      selected  == Selected(entries, threshold)
      failed    == {}
      deleted   == Cardinality(selected)
      run       == [NoPrune EXCEPT !.minutes = minutesArg, !.days = daysArg,
                                   !.at = now]
  IN  /\ IF ~dirExists
         THEN /\ entries' = entries
              /\ lastPrune' = [run EXCEPT !.outcome = "directoryNotFound",
                                          !.exit = 1, !.after = entries]
         ELSE /\ entries' = entries
              /\ lastPrune' =
                   [run EXCEPT
                      !.outcome = IF deleted = 0 THEN "noneEligible"
                                  ELSE "deleted",
                      !.threshold = <<threshold>>,
                      !.display = RetentionDisplay(retention),
                      !.selected = selected,
                      !.failed = failed,
                      !.count = deleted,
                      !.after = entries]
     /\ UNCHANGED <<sessionVars, loggerVars, envVars, envFile, script>>

\* a run without the test of the log directory: Get-ChildItem finds nothing
\* in a directory that is missing
Prune_NoDirectoryCheck(minutesArg, daysArg, failing) ==
  LET retention == LoadRetention(minutesArg, daysArg)
      threshold == Threshold(retention, now)
      selected  == IF dirExists THEN Selected(entries, threshold) ELSE {}
      failed    == {e \in selected : e.name \in failing}
      deleted   == Cardinality(selected)
      run       == [NoPrune EXCEPT !.minutes = minutesArg, !.days = daysArg,
                                   !.at = now]
  IN  /\ IF FALSE
         THEN /\ entries' = entries
              /\ lastPrune' = [run EXCEPT !.outcome = "directoryNotFound",
                                          !.exit = 1, !.after = entries]
         ELSE /\ entries' = entries \ (selected \ failed)
              /\ lastPrune' =
                   [run EXCEPT
                      !.outcome = IF deleted = 0 THEN "noneEligible"
                                  ELSE "deleted",
                      !.threshold = <<threshold>>,
                      !.display = RetentionDisplay(retention),
                      !.selected = selected,
                      !.failed = failed,
                      !.count = deleted,
                      !.after = entries \ (selected \ failed)]
     /\ UNCHANGED <<sessionVars, loggerVars, envVars, envFile, script>>

\* one run of the script with the given parameters; failing names the files
\* Remove-Item cannot delete.  An error of Remove-Item ends neither the
\* script block nor the pipeline, and $deleted++ follows it.
Prune(minutesArg, daysArg, failing) ==
  LET retention == LoadRetention(minutesArg, daysArg)
      threshold == Threshold(retention, now)
      selected  == Selected(entries, threshold)
      failed    == {e \in selected : e.name \in failing}
      deleted   == Cardinality(selected)
      run       == [NoPrune EXCEPT !.minutes = minutesArg, !.days = daysArg,
                                   !.at = now]
  IN  /\ IF ~dirExists
         THEN /\ entries' = entries
              /\ lastPrune' = [run EXCEPT !.outcome = "directoryNotFound",
                                          !.exit = 1, !.after = entries]
         ELSE /\ entries' = entries \ (selected \ failed)
              /\ lastPrune' =
                   [run EXCEPT
                      !.outcome = IF deleted = 0 THEN "noneEligible"
                                  ELSE "deleted",
                      !.threshold = <<threshold>>,
                      !.display = RetentionDisplay(retention),
                      !.selected = selected,
                      !.failed = failed,
                      !.count = deleted,
                      !.after = entries \ (selected \ failed)]
     /\ UNCHANGED <<sessionVars, loggerVars, envVars, envFile, script>>

\* a session appends to its log file: the file is there, last written now
WriteLog ==
  /\ dirExists
  /\ entries' = {e \in entries : ~(e.dir = "logs" /\ e.name = ActiveLog)}
                   \cup {LogFile(ActiveLog, now)}
  /\ entries' # entries
  /\ UNCHANGED <<sessionVars, loggerVars, envVars, envFile, lastPrune,
                 script>>

\* the pruner: every .env file, a log directory that is missing, empty or
\* full, runs of the script with every choice of parameters, the clock
InitPrune ==
  /\ SessionStart({DefaultConfig}, {"no directory", "empty directory"})
  /\ envFile \in EnvFiles
  /\ lastPrune = NoPrune
  /\ entries \in (IF dirExists THEN {{}, Catalogue} ELSE {{}})
  /\ script = <<>>
NextPrune ==
  \/ \E minutesArg \in MinutesArgs, daysArg \in DaysArgs,
        failing \in Undeletable : Prune(minutesArg, daysArg, failing)
  \/ WriteLog
  \/ Tick
SpecPrune == InitPrune /\ [][NextPrune]_vars

(***************************************************************************)
(* clean-logs.ps1 run beside a live session                                *)
(***************************************************************************)
\* a run of the script deletes log file p of the disk the session writes to:
\* the file was last written before the threshold of the run (one minute
\* ago is enough under -retentionMinutes 1).  The write times of these
\* files are not kept, so any existing log file may be the one.  The run
\* touches nothing of the session, whose logger state lives in the process.
PruneLive(p) ==
  /\ dirExists
  /\ files[p].exists
  /\ files' = [files EXCEPT ![p] = NoFile]
  /\ lastPrune' = [NoPrune EXCEPT !.outcome = "deleted", !.at = now,
                                  !.selected = {p}, !.count = 1]
  /\ UNCHANGED <<sessionVars, initialized, logPath, timestamp, dirExists,
                 envVars, entries, envFile, script>>

SharedConfigs ==
  { [DefaultConfig EXCEPT !.loggingMode = m]
      : m \in {"rotate", "overwrite", "append"} }
InitShared == StartWith(SharedConfigs, {"no directory", "earlier log"})
NextShared ==
  \/ \E input \in LogLines : Line(input)
  \/ \E i \in 1..MaxTurns, response \in Responses, fs \in FsOutcomes :
        GatewayOk(i, response, fs)
  \/ Tick
  \/ \E p \in LogPaths : PruneLive(p)
SpecShared == InitShared /\ [][NextShared]_vars

(***************************************************************************)
(* A session whose gateway calls all complete successfully and whose user  *)
(* sends no interrupt                                                      *)
(***************************************************************************)
LiveLines == { <<>>, <<"/">> \o sql, hiLine, <<"Q","U","I","T">> }
LiveConfigs ==
  { DefaultConfig,
    [DefaultConfig EXCEPT !.loggingMode = "overwrite"],
    [DefaultConfig EXCEPT !.loggingEnabled = FALSE] }

\* some gateway call in flight completes successfully
Completion ==
  \E i \in 1..MaxTurns, response \in Responses, fs \in FsOutcomes :
     GatewayOk(i, response, fs)

InitLive == StartWith(LiveConfigs, {"no directory", "earlier log"})
NextLive ==
  \/ \E input \in LiveLines : Line(input)
  \/ Completion
\* no gateway call stays unanswered for ever
SpecLive == InitLive /\ [][NextLive]_vars /\ WF_vars(Completion)

(***************************************************************************)
(* A prepared input sequence: the scenario of the specification            *)
(***************************************************************************)
whatIsAJoin == <<"w","h","a","t"," ","i","s"," ","a"," ","j","o","i","n">>

\* the lines "", "???", "/sql", "what is a join", "QUIT"
Scenario ==
  << <<>>, <<"?","?","?">>, <<"/">> \o sql, whatIsAJoin, <<"Q","U","I","T">> >>

\* exitCommands exit,quit,q,:q and default persona sas, under every logging
\* setting
ScenarioConfigs ==
  { [DefaultConfig EXCEPT !.loggingMode = m] : m \in LoggingModes }
    \cup { [DefaultConfig EXCEPT !.loggingEnabled = FALSE] }

\* the lines of the scenario arrive in their order, each at any moment:
\* before or after the gateway has answered the query
InitScenario ==
  /\ SessionStart(ScenarioConfigs, {"no directory", "earlier log"})
  /\ entries = {}
  /\ envFile = NoEnvFile
  /\ lastPrune = NoPrune
  /\ script = Scenario
NextScenario ==
  \/ ScriptLine
  \/ \E i \in 1..MaxTurns, response \in Responses, fs \in FsOutcomes :
        GatewayOk(i, response, fs)
  \/ \E i \in 1..MaxTurns : GatewayFail(i)
SpecScenario == InitScenario /\ [][NextScenario]_vars

(***************************************************************************)
(* Vocabulary of the properties                                            *)
(***************************************************************************)
\* the engine awaits a line and no turn is in flight
Idle == ~closed /\ ~crashed /\ inflight = <<>>

\* the session or the process has ended
Terminated == closed \/ crashed

\* the effects of the last handler run
Did(effect) == \E i \in DOMAIN last.out : last.out[i] = effect

(***************************************************************************)
(* C1: in every reachable state activePersona is a key of the persona      *)
(* registry.                                                               *)
(***************************************************************************)
C1_ActivePersonaRegistered == activePersona \in PersonaKeys

(***************************************************************************)
(* C2: when the gateway call of a query turn fails, the failure is         *)
(* reported, nothing is rendered or logged, exactly one re-prompt is       *)
(* issued and the process lives on.                                        *)
(***************************************************************************)
C2_GatewayFailureRecovered ==
  last.kind = "failed" =>
    /\ ~crashed
    /\ PromptsIn(last.out) = 1
    /\ ~Did("render") /\ ~Did("append")

(***************************************************************************)
(* C3: while a query turn awaits the gateway no input line is dispatched:  *)
(* activePersona and the mock flag keep their values and no second         *)
(* gateway call starts.                                                    *)
(***************************************************************************)
C3_NoDispatchDuringWait ==
  [][inflight # <<>> =>
       /\ ~(\E input \in SessionLines : Line(input))
       /\ activePersona' = activePersona
       /\ config'.mock = config.mock
       /\ Len(inflight') <= Len(inflight)]_vars

(***************************************************************************)
(* C4: a line that is not empty after trimming, holds an alphanumeric      *)
(* character and matches no command pattern makes the engine call the      *)
(* gateway once, with the line as user text and the system prompt of the   *)
(* active persona as system message.                                       *)
(***************************************************************************)
\* a case variant of a configured exit token
IsExitVariant(line) ==
  \E i \in DOMAIN config.exitCommands :
    toLowerCase(config.exitCommands[i]) = toLowerCase(line)

\* the command patterns of the input classification
MatchesCommandPattern(L) ==
  LET l == toLowerCase(L)
  IN  \/ startsWith(L, <<"/">>) /\ slice1(L) \in PersonaKeys
      \/ startsWith(l, slashPersonaSp)
      \/ L = slashPersonas
      \/ L \in {slashHelp, helpWord, questionMark}
      \/ l = slashMock \/ startsWith(l, slashMockSp)
      \/ IsExitVariant(L)

IsPlainQuery(line) ==
  /\ trim(line) # <<>>
  /\ HasAlnum(trim(line))
  /\ ~MatchesCommandPattern(trim(line))

C4_QueryCallsGatewayOnce ==
  (last.kind = "line" /\ IsPlainQuery(last.line)) =>
    /\ last.branch = "query"
    /\ inflight # <<>> /\ inflight[Len(inflight)] = last.turn
    /\ last.turn.input \in {last.line, trim(last.line)}
    /\ last.turn.persona = activePersona
    /\ activePersona \in PersonaKeys
    /\ last.turn.system = <<"systemPrompt", activePersona>>

(***************************************************************************)
(* C5: for a registered persona p the lines /p and /persona p set          *)
(* activePersona to p; for an unregistered name u the line /persona u      *)
(* leaves activePersona unchanged and emits the unknown-persona error;     *)
(* each case issues a re-prompt.                                           *)
(***************************************************************************)
\* the name u of a line "/persona u"
NamedIn(line) == SubSeq(line, Len(slashPersonaSp) + 1, Len(line))

IsPersonaCommand(line) ==
  /\ startsWith(line, slashPersonaSp)
  /\ NamedIn(line) # <<>>
  /\ \A i \in DOMAIN NamedIn(line) : NamedIn(line)[i] \notin WhiteSpace

C5_PersonaSwitch ==
  [][\A input \in PersonaLines :
       Line(input) =>
         /\ (startsWith(input, <<"/">>) /\ slice1(input) \in PersonaKeys) =>
              (activePersona' = slice1(input) /\ PromptsIn(last'.out) = 1)
         /\ (IsPersonaCommand(input) /\ NamedIn(input) \in PersonaKeys) =>
              (activePersona' = NamedIn(input) /\ PromptsIn(last'.out) = 1)
         /\ (IsPersonaCommand(input) /\ NamedIn(input) \notin PersonaKeys) =>
              /\ activePersona' = activePersona
              /\ last'.out = <<"unknownPersona", "prompt">>]_vars

(***************************************************************************)
(* C6: every letter-case variant of every configured exit token, entered   *)
(* while the engine is idle, emits the farewell, closes the input stream   *)
(* and ends the session with no further prompt.                            *)
(***************************************************************************)
C6_ExitTokenAnyCase ==
  [][\A input \in ExitLines :
       (Idle /\ IsExitVariant(input) /\ Line(input)) =>
         /\ closed'
         /\ last'.out = <<"farewell">>
         /\ PromptsIn(last'.out) = 0]_vars

(***************************************************************************)
(* C7: every processed input line other than an exit line gets exactly     *)
(* one re-prompt, and never is more than one prompt pending.               *)
(***************************************************************************)
C7_OnePromptPerLine ==
  /\ pending <= 1
  /\ (last.kind = "line" /\ last.branch \notin {"exit", "query"}) =>
       PromptsIn(last.out) = 1
  /\ (last.kind = "line" /\ last.branch = "query") => PromptsIn(last.out) = 0
  /\ last.kind \in {"done", "failed"} => PromptsIn(last.out) = 1

(***************************************************************************)
(* C8: once the session is terminated no new prompt is issued, also when   *)
(* a gateway call that was in flight completes afterwards.                 *)
(***************************************************************************)
C8_NoPromptAfterTermination ==
  [][Terminated => (pending' = pending /\ PromptsIn(last'.out) = 0)]_vars

(***************************************************************************)
(* C9: an interrupt is honoured whenever the interface is open, at the     *)
(* idle prompt and while a turn is in flight; it emits a farewell and      *)
(* closes the input stream, the effects of the exit branch.                *)
(***************************************************************************)
\* what the exit branch of the handler does
ExitEffects == Handle(exitTok)

C9_InterruptTerminates ==
  /\ (~closed /\ ~crashed) => ENABLED SIGINT
  /\ last.kind = "sigint" =>
       /\ closed /\ ~crashed
       /\ last.out = <<"farewell">>
       /\ last.out = ExitEffects.out /\ closed = ExitEffects.close

C9_Witness ==
  /\ last.kind = "sigint" /\ closed
  /\ inflight # <<>>

(***************************************************************************)
(* C10: the session ends only through a line matching an exit token or     *)
(* through an interrupt.                                                   *)
(***************************************************************************)
C10_OnlyExitOrInterruptTerminates ==
  [][(~Terminated /\ Terminated') =>
       \/ last'.kind = "sigint"
       \/ /\ last'.kind = "line"
          /\ includes(config.exitCommands, toLowerCase(trim(last'.line)))]_vars


(***************************************************************************)
(* C11: each of the lines /help, help and ? makes the engine emit the      *)
(* static command reference and re-prompt, without calling the gateway and *)
(* without changing session state.                                         *)
(***************************************************************************)
HelpLines == {slashHelp, helpWord, questionMark}

C11_HelpLines ==
  [][\A input \in HelpLines :
       Line(input) =>
         /\ last'.out = <<"help", "prompt">>
         /\ inflight' = inflight
         /\ activePersona' = activePersona
         /\ config' = config
         /\ closed' = closed]_vars

(***************************************************************************)
(* C12: while mock mode is ON (after /mock on, or when configured on at    *)
(* startup), a query turn's response is simulated: no line makes the       *)
(* engine send a request to the real completion provider.                  *)
(***************************************************************************)
\* the requests sent to the provider and not yet answered: handlePrompt
\* awaits openai.chat.completions.create for each turn in flight
ProviderRequests == inflight

C12_MockBypassesProvider ==
  [][\A input \in MockLines :
       (config.mock /\ Line(input)) => ProviderRequests' = ProviderRequests]_vars

(***************************************************************************)
(* C13: the line /mock on sets the mock flag to true and /mock off sets it *)
(* to false, in any letter case, each with a confirmation; /mock with no   *)
(* argument leaves the flag unchanged and reports its value; every case    *)
(* re-prompts and makes no gateway call.                                   *)
(***************************************************************************)
MockOnLines == {slashMockSp \o onWord, mockOnUpper}
MockOffLines == {slashMockSp \o offWord, mockOffUpper}
MockStatusLines == {slashMock, mockUpper}

C13_MockCommand ==
  [][\A input \in MockOnLines \cup MockOffLines \cup MockStatusLines :
       Line(input) =>
         /\ input \in MockOnLines =>
              /\ config' = [config EXCEPT !.mock = TRUE]
              /\ last'.out = <<"mockOn", "prompt">>
         /\ input \in MockOffLines =>
              /\ config' = [config EXCEPT !.mock = FALSE]
              /\ last'.out = <<"mockOff", "prompt">>
         /\ input \in MockStatusLines =>
              /\ config' = config
              /\ last'.out = <<"mockStatus", "prompt">>
         /\ inflight' = inflight
         /\ activePersona' = activePersona
         /\ closed' = closed]_vars

\* a session started with mock mode on has just been switched off by the
\* upper-case line
C13_Witness ==
  /\ env.mock /\ ~config.mock
  /\ last.kind = "line" /\ last.line = mockOffUpper
  /\ last.out = <<"mockOff", "prompt">>


(***************************************************************************)
(* Vocabulary of the logger claims                                         *)
(***************************************************************************)
\* the step stays within one process lifetime
SameLifetime == earlierRuns' = earlierRuns
\* the step is a record call: a turn in flight got its answer and
\* handlePrompt reached logInteraction
RecordCall ==
  /\ SameLifetime
  /\ Len(inflight') + 1 = Len(inflight)
  /\ last'.kind = "done"
\* what the handler run of the step did
Effects == Range(last'.out)
\* the logger of this process holds a resolved path
Resolved == logPath # NoPath /\ ~crashed
IsPrefix(a, b) == Len(a) <= Len(b) /\ SubSeq(b, 1, Len(a)) = a
\* number of lines of a block
BlockLen == Len(OldEntry)

(***************************************************************************)
(* C14: within one process the log file is resolved at most once, lazily   *)
(* on the first record call: only a record call touches the logger, and    *)
(* once a path is resolved every later record call keeps that path and     *)
(* that timestamp, creates no directory and truncates nothing.             *)
(***************************************************************************)
C14_ResolvedOnce ==
  [][/\ (SameLifetime /\ ~RecordCall) => UNCHANGED loggerVars
     /\ (Resolved /\ RecordCall) =>
          /\ logPath' = logPath
          /\ timestamp' = timestamp
          /\ initialized'
          /\ "mkdir" \notin Effects
          /\ "truncate" \notin Effects
          /\ IsPrefix(files[logPath].content, files'[logPath].content)]_vars

\* under overwrite mode both turns of a session have been recorded: the
\* file holds the two entries
C14_Witness ==
  /\ config.loggingMode = "overwrite"
  /\ initialized /\ ~crashed
  /\ last.kind = "done" /\ turns = 2 /\ inflight = <<>>
  /\ Len(files[logPath].content) = 2 * BlockLen

(***************************************************************************)
(* C15: when appending an entry to the resolved log file fails, the record *)
(* call reports it on the diagnostic channel and returns normally: the     *)
(* process lives, the turn re-prompts, the logger keeps its resolved file, *)
(* and every record call made with a resolved file attempts the append.    *)
(***************************************************************************)
C15_AppendFailureCaught ==
  [][RecordCall =>
       /\ "loggerError" \in Effects =>
            /\ ~crashed'
            /\ initialized'
            /\ PromptsIn(last'.out) = 1
            /\ last'.out[Len(last'.out)] = "prompt"
       /\ Resolved =>
            /\ "append" \in Effects \/ "loggerError" \in Effects
            /\ ~crashed']_vars

\* the second record call of a session failed to append: the file holds
\* the entry of the first, and the session goes on
C15_Witness ==
  /\ last.kind = "done" /\ Did("loggerError")
  /\ turns = 2 /\ inflight = <<>>
  /\ ~crashed /\ pending > 0
  /\ config.loggingMode = "rotate"
  /\ Len(files[logPath].content) = BlockLen

(***************************************************************************)
(* C16: a failure during the first-time resolution of the log file         *)
(* (creating the log directory, truncating the file under overwrite mode)  *)
(* is recovered locally: the record call returns, the turn re-prompts and  *)
(* the process lives.                                                      *)
(***************************************************************************)
C16_ResolutionFailureRecovered ==
  last.kind = "done" => (~crashed /\ PromptsIn(last.out) = 1)

(***************************************************************************)
(* C17: under overwrite mode, the first resolution in a process lifetime   *)
(* truncates the target file: the content initLogFile leaves is empty, and *)
(* after the record call that resolved, the file holds at most the entry   *)
(* of that call, whatever earlier runs left in it.                         *)
(***************************************************************************)
C17_OverwriteTruncates ==
  [][(config.loggingMode = "overwrite" /\ RecordCall /\ ~initialized
        /\ initialized') =>
       /\ \A fs \in FsOutcomes :
            LET r == initLogFile(LoggerState, fs)
            IN  r.initialized => r.files[r.logPath] = FileOf(<<>>)
       /\ \E response \in Responses :
            files'[logPath'].content \in {<<>>, Entry(last'.turn, response)}]_vars

\* a second lifetime under overwrite mode has resolved the file the first
\* one wrote to, and recorded its first turn
C17_Witness ==
  /\ config.loggingMode = "overwrite"
  /\ earlierRuns # <<>> /\ earlierRuns[1].initialized
  /\ initialized /\ last.kind = "done" /\ turns = 1
  /\ Len(files[logPath].content) = BlockLen

C19_AppendOnly ==
  [][/\ (config.loggingMode # "overwrite" \/ initialized) =>
          \A p \in LogPaths :
            /\ files[p].exists => files'[p].exists
            /\ IsPrefix(files[p].content, files'[p].content)
     /\ (config.loggingMode = "append" /\ initialized') =>
          logPath' = FixedLogPath]_vars

\* under append mode the file holds the entry of an earlier program, then
\* the entry of the first lifetime, then the entry of the second
C19_Witness ==
  /\ config.loggingMode = "append"
  /\ earlierRuns # <<>> /\ earlierRuns[1].initialized
  /\ initialized /\ last.kind = "done" /\ Did("append")
  /\ IsPrefix(OldEntry, files[logPath].content)
  /\ Len(files[logPath].content) >= 3 * BlockLen

(***************************************************************************)
(* C20: round trip: after an entry is recorded under append mode, reading  *)
(* the target file finds, in what the call added, the entry's persona,     *)
(* then its trimmed input, then its trimmed response, in that order.       *)
(***************************************************************************)
\* reading the lines from position from on finds the three in order
FindsInOrder(lines, from, persona, input, response) ==
  \E i, j, k \in from..Len(lines) :
    /\ i < j /\ j < k
    /\ lines[i] = <<"Persona", persona>>
    /\ lines[j] = <<"User", input>>
    /\ lines[k] = <<"Assistant", response>>

C20_RoundTrip ==
  [][(config.loggingMode = "append" /\ RecordCall /\ "append" \in Effects) =>
       \E response \in Responses :
         FindsInOrder(files'[logPath'].content,
                      Len(files[logPath'].content) + 1,
                      last'.turn.persona, trim(last'.turn.input),
                      trim(response))]_vars

\* under append mode, with OPENAI_PERSONA=sql, the second turn of a
\* session has been recorded after an earlier log
C20_Witness ==
  /\ config.loggingMode = "append" /\ activePersona = sql
  /\ last.kind = "done" /\ Did("append") /\ turns = 2
  /\ last.turn.input = hiLine
  /\ Len(files[FixedLogPath].content) = 3 * BlockLen
  /\ files[FixedLogPath].content[3 * BlockLen - 2] = <<"User", <<"h","i">>>>


(***************************************************************************)
(* C21: when logging is disabled by configuration, a record call is a      *)
(* no-op: no directory is created, no file is created, truncated or        *)
(* appended to, and the logger's resolved-path state is left unchanged.    *)
(***************************************************************************)
LoggerEffects == {"mkdir", "truncate", "append", "loggerError"}

C21_DisabledRecordIsNoOp ==
  [][(RecordCall /\ ~config.loggingEnabled) =>
       /\ UNCHANGED loggerVars
       /\ Effects \cap LoggerEffects = {}
       /\ ~crashed']_vars

\* with logging disabled and no log directory, both turns of a session have
\* been answered
C21_Witness ==
  /\ ~config.loggingEnabled
  /\ last.kind = "done" /\ last.out = <<"render", "prompt">>
  /\ turns = 2 /\ inflight = <<>>
  /\ ~dirExists /\ logPath = NoPath /\ ~initialized


(***************************************************************************)
(* C22: the pruning threshold is now minus the minutes value when minutes  *)
(* is strictly greater than zero, otherwise now minus the days value when  *)
(* days is greater than zero, otherwise now minus 7 days, for every        *)
(* combination of the two values (absent, zero, positive), whether they    *)
(* come from the command line or from the .env file.                       *)
(***************************************************************************)
\* the threshold the rule gives for a minutes value and a days value
\* (an absent value counts as 0)
RuleThreshold(minutes, days, t) ==
  IF minutes > 0 THEN t - minutes * Minute
  ELSE IF days > 0 THEN t - days * Day
  ELSE t - 7 * Day

\* the value a setting of the .env file gives
EnvValue(text) == IF text = "" THEN 0 ELSE IntOf(text)

\* the step is a run of the script (no other step writes lastPrune, and a
\* run that changes nothing at all is no step)
PruneRun == lastPrune' # lastPrune
\* the run of the step found the log directory
PruneScan == PruneRun /\ dirExists

C22_ThresholdPrecedence ==
  [][PruneScan =>
       /\ ~envFile.exists =>
            lastPrune'.threshold =
              <<RuleThreshold(IntParam(lastPrune'.minutes),
                              IntParam(lastPrune'.days), now)>>
       /\ (envFile.exists /\ lastPrune'.minutes = <<>>
             /\ lastPrune'.days = <<>>) =>
            lastPrune'.threshold =
              <<RuleThreshold(EnvValue(envFile.minutes),
                              EnvValue(envFile.days), now)>>]_vars


(***************************************************************************)
(* Vocabulary of the pruner claims                                         *)
(***************************************************************************)
\* the threshold of the run of the step
RunThreshold == lastPrune'.threshold[1]
\* a file that lies directly in the log directory and has the log extension
IsTopLogFile(e) == e.dir = "logs" /\ e.kind = "file" /\ e.ext = "log"
OldLog == LogFile("session_old.log", -(8 * Day))
EdgeLog == LogFile("session_edge.log", -(3 * Day))
MidLog == LogFile("session_mid.log", -(120 * Minute))

SecondRun ==
  /\ PruneScan
  /\ lastPrune.outcome \in {"noneEligible", "deleted"}
  /\ entries = lastPrune.after
  /\ lastPrune'.minutes = lastPrune.minutes
  /\ lastPrune'.days = lastPrune.days

C25_DeletionFailureDoesNotStop ==
  [][(PruneScan /\ lastPrune'.failed # {}) =>
       /\ \A e \in entries :
            (IsTopLogFile(e) /\ e.mtime < RunThreshold
               /\ e \notin lastPrune'.failed) => e \notin entries'
       /\ lastPrune'.outcome = "deleted"
       /\ lastPrune'.exit = 0]_vars

\* the old file could not be deleted; the two other files selected are gone
C25_Witness ==
  /\ lastPrune.failed = {OldLog}
  /\ lastPrune.selected = {OldLog, EdgeLog, MidLog}
  /\ OldLog \in entries
  /\ {EdgeLog, MidLog} \cap entries = {}

C27_DeletesOnlyEligible ==
  [][PruneRun =>
       \A e \in entries \ entries' :
         /\ dirExists
         /\ IsTopLogFile(e)
         /\ e.mtime < RunThreshold]_vars

\* a run with -retentionDays 3 has deleted the old file and kept the file
\* written exactly three days ago, the text file, the subdirectory and the
\* file in it
C27_Witness ==
  /\ lastPrune.outcome = "deleted" /\ lastPrune.days = <<3>>
  /\ lastPrune.threshold = <<EdgeLog.mtime>>
  /\ OldLog \notin entries
  /\ EdgeLog \in entries
  /\ \E e \in entries : e.ext = "txt"
  /\ \E e \in entries : e.kind = "directory"
  /\ \E e \in entries : e.dir # "logs"


(***************************************************************************)
(* C28: an input classification error (a line empty after trimming, a      *)
(* line with no alphanumeric character, a /persona command naming an       *)
(* unregistered persona) is never fatal: the engine emits a hint or an     *)
(* error message, leaves activePersona and the mock flag unchanged, calls  *)
(* the gateway not at all, writes nothing to the log and re-prompts.       *)
(***************************************************************************)
ClassificationHints == {"usageHint", "invalidHint", "unknownPersona"}

IsClassificationError(line) ==
  LET L == trim(line)
      l == toLowerCase(L)
  IN  \/ L = <<>>
      \/ ~HasAlnum(L)
      \/ IsPersonaCommand(l) /\ NamedIn(l) \notin PersonaKeys

C28_ClassificationErrorRecovered ==
  [][\A input \in PersonaLines \cup SessionLines :
       (Line(input) /\ IsClassificationError(input)) =>
         /\ ~closed' /\ ~crashed'
         /\ Len(last'.out) = 2
         /\ last'.out[1] \in ClassificationHints
         /\ last'.out[2] = "prompt"
         /\ activePersona' = activePersona
         /\ config'.mock = config.mock
         /\ inflight' = inflight /\ turns' = turns
         /\ UNCHANGED loggerVars]_vars


(***************************************************************************)
(* C29: the session state changes only through its own commands: a query   *)
(* turn, /personas, the help commands and /mock without argument leave     *)
(* activePersona and the mock flag unchanged; a persona switch leaves the  *)
(* mock flag unchanged; /mock on and /mock off leave activePersona         *)
(* unchanged.                                                              *)
(***************************************************************************)
AllLines == SessionLines \cup PersonaLines \cup MockLines

IsPersonaSwitch(line) ==
  LET L == trim(line)
      l == toLowerCase(L)
  IN  \/ startsWith(L, <<"/">>) /\ slice1(L) \in PersonaKeys
      \/ IsPersonaCommand(l) /\ NamedIn(l) \in PersonaKeys

IsMockSwitch(line) ==
  toLowerCase(trim(line)) \in {slashMockSp \o onWord, slashMockSp \o offWord}

\* a line that must leave the whole session state alone
IsStateNeutral(line) ==
  \/ IsPlainQuery(line)
  \/ trim(line) = slashPersonas
  \/ trim(line) \in HelpLines
  \/ toLowerCase(trim(line)) = slashMock

\* the completion of a query turn, successful or not
TurnCompletes == Len(inflight') + 1 = Len(inflight)

C29_StateChangesOnlyByOwnCommands ==
  [][/\ \A input \in AllLines :
          Line(input) =>
            /\ IsStateNeutral(input) =>
                 (activePersona' = activePersona /\ config'.mock = config.mock)
            /\ IsPersonaSwitch(input) => config'.mock = config.mock
            /\ IsMockSwitch(input) => activePersona' = activePersona
     /\ TurnCompletes =>
          (activePersona' = activePersona /\ config'.mock = config.mock)]_vars


(***************************************************************************)
(* C30: for a query turn whose gateway call succeeds, the response is      *)
(* rendered exactly once and recorded exactly once, in that order, and     *)
(* both are over before the re-prompt of the turn: the rendering comes     *)
(* first, everything the record call does comes after it and before the    *)
(* prompt, the record call appends at most one entry, and exactly one      *)
(* (the entry of the turn, at the end of the resolved file) when logging   *)
(* is enabled and no file-system call fails.                               *)
(***************************************************************************)
CountIn(out, effect) == Cardinality({i \in DOMAIN out : out[i] = effect})

\* the lines the resolved file held before the step, none when the step
\* truncated it
LinesBefore ==
  IF "truncate" \in Effects THEN <<>> ELSE files[logPath'].content

RolesOf(req, role) == {k \in DOMAIN req : req[k].role = role}

C31_RequestDependsOnLineAndPersona ==
  [][\A input \in SessionLines :
       (Line(input) /\ last'.branch = "query") =>
         LET req == Messages(last'.turn)
         IN  /\ Cardinality(RolesOf(req, "system")) = 1
             /\ Cardinality(RolesOf(req, "user")) = 1
             /\ Len(req) = 2
             /\ \A k \in RolesOf(req, "user") :
                  req[k].content \in {input, trim(input)}
             /\ last'.turn.persona = activePersona
             /\ \A k \in DOMAIN inflight :
                  (inflight[k].persona = activePersona
                     /\ inflight[k].input = last'.turn.input)
                    => Messages(inflight[k]) = req
             /\ (last.turn.persona = activePersona
                   /\ last.turn.input = last'.turn.input)
                  => Messages(last.turn) = req]_vars

\* the same line has been sent twice under persona sql, mock mode having
\* been switched on at some point, and both requests are in flight
C31_Witness ==
  /\ last.kind = "line" /\ last.branch = "query"
  /\ Len(inflight) = 2
  /\ inflight[1].persona = sql /\ inflight[2].persona = sql
  /\ inflight[1].input = inflight[2].input
  /\ config.mock


(***************************************************************************)
(* C32: with exitCommands exit, quit, q, :q and default persona sas, the   *)
(* input sequence empty line, ???, /sql, what is a join, QUIT yields in    *)
(* order a usage hint, an invalid-input hint, a persona-switch             *)
(* confirmation, exactly one gateway call made with the system prompt of   *)
(* persona sql, and termination with a farewell and no further prompt.     *)
(***************************************************************************)
\* the step handles a line of the scenario; LineNo is its number
ScenarioStep == Len(script') + 1 = Len(script)
LineNo == Len(Scenario) - Len(script')

C32_Scenario ==
  [][/\ (ScenarioStep /\ LineNo = 1) => last'.out = <<"usageHint", "prompt">>
     /\ (ScenarioStep /\ LineNo = 2) => last'.out = <<"invalidHint", "prompt">>
     /\ (ScenarioStep /\ LineNo = 3) =>
          /\ Len(last'.out) >= 1 /\ last'.out[1] = "switched"
          /\ activePersona' = sql
          /\ turns' = 0
     /\ (ScenarioStep /\ LineNo = 4) =>
          /\ turns' = 1
          /\ Len(inflight') = 1
          /\ Messages(inflight'[1])[1].content = <<"systemPrompt", sql>>
          /\ Messages(inflight'[1])[2].content = whatIsAJoin
     /\ (ScenarioStep /\ LineNo = 5) =>
          /\ last'.out = <<"farewell">>
          /\ closed'
          /\ turns' = 1
     /\ turns' <= 1
     /\ script = <<>> => (pending' = pending /\ PromptsIn(last'.out) = 0)]_vars


(***************************************************************************)
(* C33: the count that prune reports equals the number of files actually   *)
(* removed from the directory in that run, also in a run in which some     *)
(* deletions fail.                                                         *)
(***************************************************************************)
\* the files the step removed from the directory
Removed == entries \ entries'

C33_CountIsFilesRemoved ==
  [][PruneRun => lastPrune'.count = Cardinality(Removed)]_vars


(***************************************************************************)
(* C34: if every gateway call eventually completes successfully and no     *)
(* interrupt occurs, every input line that is not an exit token is         *)
(* eventually followed by a return to Idle with a re-prompt: the engine    *)
(* never stays in Dispatching for ever, unless the user ends the session.   *)
(***************************************************************************)
\* a line that is no exit token has just been received
NonExitLineReceived == last.kind = "line" /\ last.branch # "exit"
\* the engine is idle and a prompt awaits the next line
IdleWithPrompt == Idle /\ pending > 0

\* (a session the user has ended with an exit token in the meantime owes
\* the line nothing more)
C34_EveryLineReturnsToIdle ==
  NonExitLineReceived ~> (IdleWithPrompt \/ closed)


(***************************************************************************)
(* C35: the persona written in the log entry of a turn and shown in its    *)
(* rendered heading is the persona whose system prompt was sent to the     *)
(* gateway for the turn, the value of activePersona when the line was      *)
(* dispatched, also when activePersona has changed before the gateway      *)
(* call completes.                                                         *)
(***************************************************************************)
\* the Persona line of the entry at the end of the resolved file
LoggedPersona ==
  files'[logPath'].content[Len(files'[logPath'].content) - BlockLen + 2]

C35_PersonaOfDispatch ==
  [][/\ \A input \in SessionLines :
          (Line(input) /\ last'.branch = "query") =>
            /\ last'.turn.persona = activePersona
            /\ inflight' = Append(inflight, last'.turn)
            /\ activePersona \in PersonaKeys =>
                 Messages(last'.turn)[1].content
                   = <<"systemPrompt", activePersona>>
     /\ RecordCall =>
          /\ \E k \in DOMAIN inflight : inflight[k] = last'.turn
          /\ toLowerCase(last'.heading) = toLowerCase(last'.turn.persona)
          /\ "append" \in Effects =>
               LoggedPersona = <<"Persona", last'.turn.persona>>]_vars

\* a turn dispatched under sas is rendered and recorded after the user has
\* switched to sql
C35_Witness ==
  /\ last.kind = "done" /\ Did("append")
  /\ last.turn.persona = sas /\ activePersona = sql
  /\ last.heading = <<"S","A","S">>
  /\ files[logPath].content[Len(files[logPath].content) - BlockLen + 2]
       = <<"Persona", sas>>


(***************************************************************************)
(* C36: a line that begins with a slash, matches no command pattern (such  *)
(* as /persona without argument, /SQL, /foo) and is no exit token is       *)
(* classified as a query: it is sent to the gateway once and leaves        *)
(* activePersona and the mock flag unchanged.                              *)
(***************************************************************************)
IsSlashQuery(line) ==
  /\ startsWith(trim(line), <<"/">>)
  /\ IsPlainQuery(line)

C36_UnmatchedSlashLineIsQuery ==
  [][\A input \in PersonaLines :
       (Line(input) /\ IsSlashQuery(input)) =>
         /\ last'.branch = "query"
         /\ turns' = turns + 1
         /\ Len(inflight') = Len(inflight) + 1
         /\ Messages(inflight'[Len(inflight')])[2].content
              \in {input, trim(input)}
         /\ activePersona' = activePersona
         /\ config'.mock = config.mock]_vars


PrunesResolvedFile ==
  /\ initialized
  /\ files[logPath].exists /\ ~files'[logPath].exists

C38_AppendsToCachedPathAfterPrune ==
  [][/\ PrunesResolvedFile =>
          (initialized' /\ logPath' = logPath /\ timestamp' = timestamp)
     /\ (RecordCall /\ initialized /\ ~files[logPath].exists) =>
          /\ logPath' = logPath
          /\ timestamp' = timestamp
          /\ initialized'
          /\ Effects \cap {"mkdir", "truncate", "uncaught"} = {}
          /\ "loggerError" \notin Effects => "append" \in Effects
          /\ "append" \in Effects =>
               \E response \in Responses :
                 files'[logPath] = FileOf(Entry(last'.turn, response))
          /\ "append" \notin Effects => ~files'[logPath].exists]_vars

\* under rotate mode the pruner deleted the resolved file at a later
\* reading of the clock than the resolution, and the turn answered since
\* has created the file again under its old name, with its entry alone
C38_Witness ==
  /\ config.loggingMode = "rotate"
  /\ initialized /\ ~crashed
  /\ lastPrune.outcome = "deleted" /\ lastPrune.selected = {logPath}
  /\ lastPrune.at > timestamp
  /\ logPath = RotateLogPath(timestamp)
  /\ last.kind = "done" /\ Did("append")
  /\ \E response \in Responses :
       files[logPath] = FileOf(Entry(last.turn, response))


(***************************************************************************)
(* C39: a configured logging mode other than rotate and overwrite, any     *)
(* unrecognised value included, behaves exactly as append: the resolved    *)
(* path is directory/filename and the file is never truncated, every       *)
(* record call adding its entry to what the file holds.                    *)
(***************************************************************************)
IsAppendLike(mode) == mode \notin {"rotate", "overwrite"}

C39_UnrecognisedModeIsAppend ==
  [][/\ IsAppendLike(config.loggingMode) =>
          /\ initialized' => logPath' = FixedLogPath
          /\ \A p \in LogPaths :
               /\ files[p].exists => files'[p].exists
               /\ IsPrefix(files[p].content, files'[p].content)
               /\ p # FixedLogPath => files'[p] = files[p]
     /\ (IsAppendLike(config.loggingMode) /\ RecordCall) =>
          /\ "truncate" \notin Effects
          /\ ~crashed' => (initialized' /\ logPath' = FixedLogPath)
          /\ "append" \in Effects =>
               \E response \in Responses :
                 files'[FixedLogPath] =
                   FileOf(files[FixedLogPath].content
                            \o Entry(last'.turn, response))
          /\ "append" \notin Effects => files' = files]_vars

\* under the unrecognised mode daily the fixed file holds the entry of an
\* earlier program, then that of the first lifetime, then that of the second
C39_Witness ==
  /\ config.loggingMode = "daily"
  /\ earlierRuns # <<>> /\ earlierRuns[1].logPath = FixedLogPath
  /\ initialized /\ logPath = FixedLogPath
  /\ last.kind = "done" /\ Did("append")
  /\ IsPrefix(OldEntry, files[FixedLogPath].content)
  /\ Len(files[FixedLogPath].content) = 3 * BlockLen

=============================================================================
